---- MODULE Spec2Model ----
(***************************************************************************)
(* Model of immich_updater.py: one run of the updater script, from the     *)
(* retrieval of the installed version to the process exit.                 *)
(*                                                                         *)
(* Strings the script computes on (the release tag, the release notes) are *)
(* sequences of one-character strings, so that lstrip, split, splitlines,  *)
(* int() and re.search are computed as the script computes them.           *)
(***************************************************************************)
EXTENDS Integers, Sequences, FiniteSets, TLC

\* ------------------------------------------------------------------ bounds
MaxVer == 1       \* components of the installed version range over 0..MaxVer
MaxComps == 4     \* a release tag has 1..MaxComps dot-separated components
MaxDays == 3      \* the clock is read up to MaxDays days after the epoch

\* ------------------------------------------------------- program constants
DELAY_DAYS == 3
SecondsPerDay == 86400

\* Optional values: None is the empty sequence, a value v is <<v>>.
None == <<>>
Some(v) == <<v>>
Val(o) == o[1]

\* ---------------------------------------------------- Python string helpers
Digits == {"0", "1", "2", "3", "4", "5", "6", "7", "8", "9"}

DigitVal(c) ==
    CASE c = "0" -> 0 [] c = "1" -> 1 [] c = "2" -> 2 [] c = "3" -> 3
      [] c = "4" -> 4 [] c = "5" -> 5 [] c = "6" -> 6 [] c = "7" -> 7
      [] c = "8" -> 8 [] c = "9" -> 9

\* str.lstrip(ch): every leading occurrence of ch is removed.
RECURSIVE LStrip(_, _)
LStrip(s, ch) ==
    IF s # <<>> /\ Head(s) = ch THEN LStrip(Tail(s), ch) ELSE s

\* str.split(sep): the pieces between the separators; never an empty list.
RECURSIVE SplitFrom(_, _, _)
SplitFrom(s, sep, cur) ==
    IF s = <<>> THEN <<cur>>
    ELSE IF Head(s) = sep THEN <<cur>> \o SplitFrom(Tail(s), sep, <<>>)
    ELSE SplitFrom(Tail(s), sep, Append(cur, Head(s)))

Split(s, sep) == SplitFrom(s, sep, <<>>)

\* str.splitlines(): the lines of the text; an empty text has no line, and a
\* final line break opens no further line.
RECURSIVE LinesFrom(_, _)
LinesFrom(s, cur) ==
    IF s = <<>> THEN (IF cur = <<>> THEN <<>> ELSE <<cur>>)
    ELSE IF Head(s) = "\n" THEN <<cur>> \o LinesFrom(Tail(s), <<>>)
    ELSE LinesFrom(Tail(s), Append(cur, Head(s)))

SplitLines(s) == LinesFrom(s, <<>>)

\* int(s) succeeds on a non-empty run of decimal digits.
IsInt(s) == s # <<>> /\ \A i \in 1..Len(s) : s[i] \in Digits

RECURSIVE IntOf(_)
IntOf(s) ==
    IF s = <<>> THEN 0
    ELSE 10 * IntOf(SubSeq(s, 1, Len(s) - 1)) + DigitVal(s[Len(s)])

\* Case folding of re.IGNORECASE, on the letters of the marker.
Lower(c) ==
    CASE c = "B" -> "b" [] c = "R" -> "r" [] c = "E" -> "e" [] c = "A" -> "a"
      [] c = "K" -> "k" [] c = "I" -> "i" [] c = "N" -> "n" [] c = "G" -> "g"
      [] c = "C" -> "c" [] c = "H" -> "h"
      [] OTHER -> c

Marker ==
    << "b", "r", "e", "a", "k", "i", "n", "g", " ", "c", "h", "a", "n", "g", "e" >>

\* re.search('breaking change', line, re.IGNORECASE)
Search(line) ==
    \E i \in 1..Len(line) :
        /\ i + Len(Marker) - 1 <= Len(line)
        /\ \A j \in 1..Len(Marker) : Lower(line[i + j - 1]) = Marker[j]

\* ------------------------------------------------------------------ inputs
\* Installed versions the local API reports: integer major, minor, patch.
Versions == [major : 0..MaxVer, minor : 0..MaxVer, patch : 0..MaxVer]

\* Release tags: an optional "v", then 1..MaxComps components joined by ".",
\* each a number or not a number.
CompStrs == { <<"0">>, <<"1">>, <<"x">> }
Prefixes == { <<>>, <<"v">> }

RECURSIVE Join(_)
Join(cs) ==
    IF Len(cs) = 1 THEN cs[1] ELSE cs[1] \o <<".">> \o Join(Tail(cs))

Tags ==
    { p \o Join(cs) :
        p \in Prefixes, cs \in UNION { [1..n -> CompStrs] : n \in 1..MaxComps } }

\* Release notes: the 'body' key may be missing from the release JSON, may be
\* JSON null, or holds a text.
BodyMissing == [kind |-> "missing", text |-> <<>>]
BodyNull == [kind |-> "null", text |-> <<>>]
BodyTexts ==
    { <<>>,
      << "o", "k" >>,
      << "B", "r", "e", "a", "k", "i", "n", "g", " ", "C", "h", "a", "n", "g", "e" >>,
      << "o", "k", "\n", "-", " ", "B", "R", "E", "A", "K", "I", "N", "G", " ",
         "C", "H", "A", "N", "G", "E", "S", "\n" >>,
      << "b", "r", "e", "a", "k", "i", "n", "g", "\n", "c", "h", "a", "n", "g", "e" >> }
Bodies == { BodyMissing, BodyNull } \cup { [kind |-> "text", text |-> t] : t \in BodyTexts }

\* published_at: a timestamp datetime.fromisoformat accepts (seconds since an
\* epoch, here one day after it) or one it rejects.
PublishedAts ==
    { [valid |-> FALSE, secs |-> 0], [valid |-> TRUE, secs |-> SecondsPerDay] }

\* Readings of datetime.now(timezone.utc): day boundaries and the last second
\* before them.
Nows ==
    { k * SecondsPerDay + r : k \in 0..(MaxDays + 1), r \in {0, SecondsPerDay - 1} }

Releases == [tag_name : Tags, body : Bodies, published_at : PublishedAts]

\* ------------------------------------------------------------------- state
VARIABLES
    pc,                  \* the block of the script that runs next
    curr_vers,           \* JSON of the local API, or None
    release_data,        \* JSON of the release feed, or None
    latest_version,      \* release tag, prefix stripped, split on "."
    now,                 \* the clock reading of the delay check, or None
    days_since_release,  \* whole days since the release, or None
    scan,                \* outcome of the release notes scan
    verdict,             \* the branch the run decided on, or "none"
    ops,                 \* docker compose commands run, in order, with outcome
    log,                 \* lines this run appended to update_log.txt
    raised,              \* exceptions raised during the run
    exit_code,           \* process exit status, or None while running
    exit_via,            \* "running", "sys.exit", or "exception" (traceback)
    visited              \* blocks of the script that have run

vars ==
    << pc, curr_vers, release_data, latest_version, now, days_since_release, scan,
       verdict, ops, log, raised, exit_code, exit_via, visited >>

Skips ==
    { "SkipMajorChange", "SkipNoChange", "SkipBreakingChange", "SkipDelayNotElapsed" }

Init ==
    /\ pc = "fetch_current"
    /\ curr_vers = None
    /\ release_data = None
    /\ latest_version = None
    /\ now = None
    /\ days_since_release = None
    /\ scan = "not_run"
    /\ verdict = "none"
    /\ ops = <<>>
    /\ log = <<>>
    /\ raised = {}
    /\ exit_code = None
    /\ exit_via = "running"
    /\ visited = {}

\* ------------------------------------------------------ logging and exits
\* log_update(message); sys.exit(code).  open(..., 'a') raises OSError when
\* the log file cannot be written, and nothing catches it.
LogThenExit(message, code, excs, logOk) ==
    /\ pc' = "done"
    /\ IF logOk
         THEN /\ log' = Append(log, message)
              /\ raised' = raised \cup excs
              /\ exit_code' = Some(code)
              /\ exit_via' = "sys.exit"
         ELSE /\ log' = log
              /\ raised' = raised \cup excs \cup {"OSError"}
              /\ exit_code' = Some(1)
              /\ exit_via' = "exception"

\* An exception no handler catches: traceback, exit status 1.
Crash(exc) ==
    /\ pc' = "done"
    /\ log' = log
    /\ raised' = raised \cup {exc}
    /\ exit_code' = Some(1)
    /\ exit_via' = "exception"

Continue(next) ==
    /\ pc' = next
    /\ UNCHANGED << log, raised, exit_code, exit_via >>

\* Mutant: err() logs the line of the completed update.
ErrMessage_Updated == "updated"

\* The message err() logs.
ErrMessage == "command_failed"

\* err(err_obj): log, then sys.exit(1).
Err(logOk) == LogThenExit(ErrMessage, 1, {"ErrorReturnCode"}, logOk)

\* ------------------------------------------------------ decision operators
\* Mutant: the tag's major is compared with the installed minor.
MajorChanged_VsMinor(lv, cv) == IntOf(lv[1]) # cv.minor

\* int(latest_version[0]) != int(curr_vers['major'])
MajorChanged(lv, cv) == IntOf(lv[1]) # cv.major

\* Mutant: the tag's patch is compared with the installed minor.
NoChange_PatchVsMinor(lv, cv) == IntOf(lv[2]) = cv.minor /\ IntOf(lv[3]) = cv.minor

\* int(latest_version[1]) == int(curr_vers['minor'])
\*     and int(latest_version[2]) == int(curr_vers['patch'])
NoChange(lv, cv) == IntOf(lv[2]) = cv.minor /\ IntOf(lv[3]) = cv.patch

\* Mutant: the notes are scanned on any version change, patch-only included.
MinorChanged_AnyChange(lv, cv) ==
    IntOf(lv[2]) # cv.minor \/ IntOf(lv[3]) # cv.patch

\* int(latest_version[1]) != int(curr_vers['minor'])
MinorChanged(lv, cv) == IntOf(lv[2]) # cv.minor

\* Some line of the notes holds the marker.
HasMarker(text) ==
    LET lines == SplitLines(text) IN \E i \in 1..Len(lines) : Search(lines[i])

\* (datetime.now(timezone.utc) - release_DT).days: timedelta normalises to
\* 0 <= seconds < 86400, so days is the floor of the quotient.
DaysBetween(t, released) == (t - released) \div SecondsPerDay

\* Mutant: the release must be more than DELAY_DAYS days old.
DelayNotMet_Inclusive(days) == days <= DELAY_DAYS

\* days_since_release < DELAY_DAYS
DelayNotMet(days) == days < DELAY_DAYS

\* The exception the conditions of the no-change check raise, or "none":
\* the second operand of `and` is evaluated only if the first is true.
NoChangeError(lv, cv) ==
    IF Len(lv) < 2 THEN "IndexError"
    ELSE IF ~IsInt(lv[2]) THEN "ValueError"
    ELSE IF IntOf(lv[2]) # cv.minor THEN "none"
    ELSE IF Len(lv) < 3 THEN "IndexError"
    ELSE IF ~IsInt(lv[3]) THEN "ValueError"
    ELSE "none"

\* ----------------------------------------------------------------- actions
\* Lines 57-68: GET the installed version.
FetchCurrent ==
    /\ pc = "fetch_current"
    /\ visited' = visited \cup {pc}
    /\ UNCHANGED << release_data, latest_version, now, days_since_release, scan,
                    verdict, ops >>
    /\ \/ \E v \in Versions :
            /\ curr_vers' = Some(v)
            /\ Continue("fetch_latest")
       \/ \E logOk \in BOOLEAN :
            \* requests.RequestException: handled, logged, exit 1
            /\ curr_vers' = curr_vers
            /\ LogThenExit("fetch_current_failed", 1, {"RequestException"}, logOk)
       \/ \* the JSON lacks 'major', 'minor' or 'patch'
          /\ curr_vers' = curr_vers
          /\ Crash("KeyError")

\* Lines 72-85: GET the latest release; strip the tag's "v"s and split it.
FetchLatest ==
    /\ pc = "fetch_latest"
    /\ visited' = visited \cup {pc}
    /\ UNCHANGED << curr_vers, now, days_since_release, scan, verdict, ops >>
    /\ \/ \E rel \in Releases :
            /\ release_data' = Some(rel)
            /\ latest_version' = Split(LStrip(rel.tag_name, "v"), ".")
            /\ Continue("check_major")
       \/ \E logOk \in BOOLEAN :
            /\ UNCHANGED << release_data, latest_version >>
            /\ LogThenExit("fetch_latest_failed", 1, {"RequestException"}, logOk)
       \/ \* the JSON lacks 'tag_name'
          /\ UNCHANGED << release_data, latest_version >>
          /\ Crash("KeyError")

\* Lines 88-95: a major version change ends the run.
CheckMajor ==
    /\ pc = "check_major"
    /\ visited' = visited \cup {pc}
    /\ UNCHANGED << curr_vers, release_data, latest_version, now, days_since_release,
                    scan, ops >>
    /\ IF ~IsInt(latest_version[1])
         THEN /\ verdict' = verdict
              /\ Crash("ValueError")
         ELSE IF MajorChanged(latest_version, Val(curr_vers))
         THEN /\ verdict' = "SkipMajorChange"
              /\ \E logOk \in BOOLEAN : LogThenExit("major_change", 0, {}, logOk)
         ELSE /\ verdict' = verdict
              /\ Continue("check_nochange")

\* Lines 98-103: minor and patch both unchanged ends the run.
CheckNoChange ==
    /\ pc = "check_nochange"
    /\ visited' = visited \cup {pc}
    /\ UNCHANGED << curr_vers, release_data, latest_version, now, days_since_release,
                    scan, ops >>
    /\ LET e == NoChangeError(latest_version, Val(curr_vers)) IN
         IF e # "none"
           THEN /\ verdict' = verdict
                /\ Crash(e)
           ELSE IF NoChange(latest_version, Val(curr_vers))
           THEN /\ verdict' = "SkipNoChange"
                /\ \E logOk \in BOOLEAN : LogThenExit("no_change", 0, {}, logOk)
           ELSE /\ verdict' = verdict
                /\ Continue("check_notes")

\* Lines 106-124: on a minor version change, scan the release notes.
CheckNotes ==
    /\ pc = "check_notes"
    /\ visited' = visited \cup {pc}
    /\ UNCHANGED << curr_vers, release_data, latest_version, now, days_since_release,
                    ops >>
    /\ LET body == Val(release_data).body IN
         IF ~MinorChanged(latest_version, Val(curr_vers))
           THEN /\ UNCHANGED << scan, verdict >>
                /\ Continue("check_delay")
           ELSE IF body = BodyMissing
           THEN \* 'body' not in release_data
                /\ scan' = "not_found"
                /\ verdict' = verdict
                /\ Continue("check_delay")
           ELSE IF body = BodyNull
           THEN \* None.splitlines()
                /\ scan' = "error"
                /\ verdict' = verdict
                /\ Crash("AttributeError")
           ELSE IF HasMarker(body.text)
           THEN /\ scan' = "found"
                /\ verdict' = "SkipBreakingChange"
                /\ \E logOk \in BOOLEAN : LogThenExit("breaking_change", 0, {}, logOk)
           ELSE /\ scan' = "not_found"
                /\ verdict' = verdict
                /\ Continue("check_delay")

\* Lines 127-144: the release must be DELAY_DAYS days old.
CheckDelay ==
    /\ pc = "check_delay"
    /\ visited' = visited \cup {pc}
    /\ UNCHANGED << curr_vers, release_data, latest_version, scan, ops >>
    /\ LET published == Val(release_data).published_at IN
         IF ~published.valid
           THEN \* datetime.fromisoformat rejects the text
                /\ UNCHANGED << now, days_since_release, verdict >>
                /\ Crash("ValueError")
           ELSE \E t \in Nows :
                LET days == DaysBetween(t, published.secs) IN
                /\ now' = Some(t)
                /\ days_since_release' = Some(days)
                /\ IF DelayNotMet(days)
                     THEN /\ verdict' = "SkipDelayNotElapsed"
                          /\ \E logOk \in BOOLEAN : LogThenExit("deferred", 0, {}, logOk)
                     ELSE /\ verdict' = "Proceed"
                          /\ Continue("pull")

\* Mutant: a failed pull does not end the run.
AfterPull_NoExit(ok) == "up"

\* Where the script goes after `docker compose pull`.
AfterPull(ok) == IF ok THEN "up" ELSE "done"

\* Lines 146-156: build the docker command, pull the images.
Pull ==
    /\ pc = "pull"
    /\ visited' = visited \cup {pc}
    /\ UNCHANGED << curr_vers, release_data, latest_version, now, days_since_release,
                    scan, verdict >>
    /\ \/ \* sh.Command('docker'): no docker on the PATH
          /\ ops' = ops
          /\ Crash("CommandNotFound")
       \/ \E ok \in BOOLEAN :
            /\ ops' = Append(ops, [op |-> "pull", ok |-> ok])
            /\ IF AfterPull(ok) = "done"
                 THEN \E logOk \in BOOLEAN : Err(logOk)
                 ELSE Continue(AfterPull(ok))

\* Lines 158-169: restart the service, log the update.
Up ==
    /\ pc = "up"
    /\ visited' = visited \cup {pc}
    /\ UNCHANGED << curr_vers, release_data, latest_version, now, days_since_release,
                    scan, verdict >>
    /\ \E ok \in BOOLEAN :
         /\ ops' = Append(ops, [op |-> "up", ok |-> ok])
         /\ \E logOk \in BOOLEAN :
              IF ok THEN LogThenExit("updated", 0, {}, logOk) ELSE Err(logOk)

Next ==
    \/ FetchCurrent
    \/ FetchLatest
    \/ CheckMajor
    \/ CheckNoChange
    \/ CheckNotes
    \/ CheckDelay
    \/ Pull
    \/ Up

Spec == Init /\ [][Next]_vars

\* ------------------------------------------------- vocabulary of the claims
Done == pc = "done"
Fetched == release_data # None
cv == Val(curr_vers)
lv == latest_version
rel == Val(release_data)

\* Component i of the release tag exists and is a number.
Numeric(i) == Len(lv) >= i /\ IsInt(lv[i])

EqualMajor == Fetched /\ Numeric(1) /\ IntOf(lv[1]) = cv.major
DifferentMajor == Fetched /\ Numeric(1) /\ IntOf(lv[1]) # cv.major
EqualMinor == Numeric(2) /\ IntOf(lv[2]) = cv.minor
DifferentMinor == Numeric(2) /\ IntOf(lv[2]) # cv.minor
EqualPatch == Numeric(3) /\ IntOf(lv[3]) = cv.patch
DifferentPatch == Numeric(3) /\ IntOf(lv[3]) # cv.patch

\* The release notes hold the marker on some line.
NotesHaveMarker == rel.body.kind = "text" /\ HasMarker(rel.body.text)

NoDecisionWork ==
    /\ scan = "not_run"
    /\ days_since_release = None
    /\ ops = <<>>
    /\ visited \cap {"check_notes", "check_delay", "pull", "up"} = {}

\* The tag has fewer than three components, or one that is no number.
Malformed == Len(lv) < 3 \/ \E i \in 1..Len(lv) : ~IsInt(lv[i])

\* log_update raised: the log file could not be written.
LogWriteFailed == "OSError" \in raised

PullOk == [op |-> "pull", ok |-> TRUE]
PullFailed == [op |-> "pull", ok |-> FALSE]
UpOk == [op |-> "up", ok |-> TRUE]
UpFailed == [op |-> "up", ok |-> FALSE]

\* ---------------------------------------------------------------------- C1
\* C1 (as amended): with equal major, a latest release whose minor and patch
\* both equal the installed ones ends the run with SkipNoChange: no notes
\* scan, no delay check, no container operation.
C1_EqualVersionSkips ==
    (EqualMajor /\ EqualMinor /\ EqualPatch)
        => /\ NoDecisionWork
           /\ Done => verdict = "SkipNoChange"

C1_Witness ==
    /\ Done
    /\ EqualMajor /\ EqualMinor /\ EqualPatch
    /\ verdict = "SkipNoChange"

\* C1 (as stated): with equal major, a latest release equal to or older than
\* the installed one (lower minor, or equal minor and lower patch) ends every
\* run that reaches a verdict, its log written, with SkipNoChange and without
\* notes scan, delay check or container operation.
LatestNotNewer ==
    /\ Numeric(2) /\ Numeric(3)
    /\ \/ IntOf(lv[2]) < cv.minor
       \/ IntOf(lv[2]) = cv.minor /\ IntOf(lv[3]) <= cv.patch

C1_OlderOrEqualSkips ==
    (Done /\ verdict # "none" /\ ~LogWriteFailed /\ ~Malformed /\ EqualMajor
        /\ LatestNotNewer)
        => verdict = "SkipNoChange" /\ NoDecisionWork

\* ---------------------------------------------------------------------- C2
\* C2: a run that ends in a skip verdict or in a completed update exits with
\* status 0; a run in which a fetch or a container operation fails exits
\* with status 1.
CompletedUpdate == ops = << PullOk, UpOk >>
FetchFailed == "RequestException" \in raised
OperationFailed == "ErrorReturnCode" \in raised

C2_ExitStatus ==
    Done =>
        /\ (verdict \in Skips \/ CompletedUpdate) => exit_code = Some(0)
        /\ (FetchFailed \/ OperationFailed) => exit_code = Some(1)

\* ---------------------------------------------------------------------- C3
\* C3: a failed write to the log file changes nothing: the run exits with the
\* status it has with a writable log (1 after a failed fetch or container
\* operation, 0 after a skip verdict or a completed pull and up).
OutcomeStatus == IF FetchFailed \/ OperationFailed THEN 1 ELSE 0

C3_LogFailureHarmless ==
    (Done /\ LogWriteFailed) => exit_code = Some(OutcomeStatus)

\* ---------------------------------------------------------------------- C4
\* C4: with equal major and differing minor, notes with the marker on some
\* line give SkipBreakingChange; notes that are absent (key missing, or null)
\* or hold no marker make the scan yield false without an error, and the run
\* goes on to the delay check.  (Stated of well-formed tags and of the runs
\* whose log is written.)
C4_NotesScan ==
    (Done /\ ~LogWriteFailed /\ ~Malformed /\ EqualMajor /\ DifferentMinor)
        => /\ NotesHaveMarker => verdict = "SkipBreakingChange"
           /\ ~NotesHaveMarker =>
                /\ scan = "not_found"
                /\ "check_delay" \in visited

\* ---------------------------------------------------------------------- C5
\* C5: a release tag with fewer than three components or with a component
\* that is no number ends the run with a parse error: failure exit status,
\* no verdict, no container operation.  (Stated of the runs whose log is
\* written.)
C5_MalformedTagFails ==
    (Done /\ ~LogWriteFailed /\ Fetched /\ Malformed)
        => /\ exit_code = Some(1)
           /\ raised \cap {"ValueError", "IndexError"} # {}
           /\ verdict = "none"
           /\ ops = <<>>

\* ---------------------------------------------------------------------- C6
\* C6: the container operations of a run are a prefix of [pull, up]: none
\* without the Proceed verdict, up only after a successful pull, nothing after
\* a failed operation, which ends the run with status 1; after a successful
\* pull, up is invoked.
C6_OperationsPrefix ==
    /\ ops \in { <<>>, <<PullOk>>, <<PullFailed>>, <<PullOk, UpOk>>, <<PullOk, UpFailed>> }
    /\ ops # <<>> => verdict = "Proceed"
    /\ (Done /\ \E i \in 1..Len(ops) : ~ops[i].ok) => exit_code = Some(1)
    /\ (Done /\ ops # <<>> /\ ops[1].ok) => Len(ops) = 2
    /\ (Done /\ verdict = "Proceed" /\ "CommandNotFound" \notin raised) => ops # <<>>

C6_Witness ==
    /\ Done
    /\ ops = << PullOk, UpFailed >>
    /\ exit_code = Some(1)

\* ---------------------------------------------------------------------- C7
\* C7: for a qualifying version change (equal major; minor differs and the
\* scan found no marker, or only the patch differs) with a valid publish
\* time, d is the floor of the elapsed whole days, and the verdict is
\* SkipDelayNotElapsed iff d < DELAY_DAYS and Proceed iff d >= DELAY_DAYS.
Qualifying ==
    /\ EqualMajor
    /\ \/ DifferentMinor /\ scan = "not_found"
       \/ EqualMinor /\ DifferentPatch
    /\ rel.published_at.valid

Elapsed == Val(now) - rel.published_at.secs

C7_DelayDecides ==
    (Done /\ Qualifying)
        => /\ days_since_release # None
           /\ Val(days_since_release) * SecondsPerDay <= Elapsed
           /\ Elapsed < (Val(days_since_release) + 1) * SecondsPerDay
           /\ verdict = "SkipDelayNotElapsed" <=> Val(days_since_release) < DELAY_DAYS
           /\ verdict = "Proceed" <=> Val(days_since_release) >= DELAY_DAYS

\* One second short of DELAY_DAYS days: the update is deferred.
C7_Witness ==
    /\ Done
    /\ Qualifying
    /\ now # None
    /\ Elapsed = DELAY_DAYS * SecondsPerDay - 1
    /\ verdict = "SkipDelayNotElapsed"

\* ---------------------------------------------------------------------- C8
\* C8: whenever the major components differ the verdict is SkipMajorChange,
\* whatever the minor, patch, notes, publish time and clock are, and no
\* container operation is invoked.
C8_MajorChangeWins ==
    DifferentMajor
        => /\ NoDecisionWork
           /\ Done => verdict = "SkipMajorChange"

C8_Witness ==
    /\ Done
    /\ DifferentMajor
    /\ DifferentMinor
    /\ ~NotesHaveMarker
    /\ verdict = "SkipMajorChange"

\* ---------------------------------------------------------------------- C9
\* C9: for a patch-only change the notes are not scanned and the verdict is
\* never SkipBreakingChange, marker or not: the delay check alone decides.
PatchOnly == EqualMajor /\ EqualMinor /\ DifferentPatch

Logged(message) == \E i \in 1..Len(log) : log[i] = message

C10_SuccessLine ==
    /\ Logged("updated") => verdict = "Proceed" /\ ops = << PullOk, UpOk >>
    /\ (Done /\ exit_via = "sys.exit") => Len(log) = 1

C10_Witness ==
    /\ Done
    /\ log = << "updated" >>
    /\ exit_code = Some(0)

====
